---- MODULE Spec2Model ----
(***************************************************************************)
(* Model of libcodechecker/libclient/client.py: the session establishment  *)
(* (setup_auth_client, perform_auth_for_handler), the explicit login and   *)
(* logout (handle_auth), the client factory (setup_client,                 *)
(* setup_product_client, setup_service_client) and check_permission.       *)
(*                                                                         *)
(* One client process runs one operation at a time; every RPC and every    *)
(* write of the credential store is a step of its own, so the server may   *)
(* expire a session between any two of them.                               *)
(*                                                                         *)
(* Spec is that process alone.  SpecShared adds a second process that runs *)
(* handle_auth on the same credential store, step by step, while the first *)
(* runs setup_auth_client.  SpecReview starts where setup_client has       *)
(* returned a service client and sends changeReviewStatus and getReport    *)
(* over it, as tests/functional/review_status does.                        *)
(*                                                                         *)
(* Strings are modelled as sequences of pieces.  A product name, a method  *)
(* name and an endpoint path are the concatenation of their pieces; a      *)
(* credential string is its pieces joined by ":" (no piece holds a ":").   *)
(***************************************************************************)
EXTENDS Integers, Sequences, FiniteSets, TLC

\* ------------------------------------------------------------------ bounds

\* Operations one behaviour starts, one after the other.
MaxOps == 2
\* Longest product list a getProducts response holds.
MaxProducts == 2
\* Operations the second process starts.
MaxOtherOps == 2
\* changeReviewStatus calls one behaviour sends.
MaxChanges == 3

\* --------------------------------------------------------------- constants

\* session_token=None (or an empty token): "not session_token" is true of it.
NoToken == 0
\* The token a previous invocation left in the credential store.
FirstToken == NoToken + 1
\* product_name=None: the server-wide product endpoint.
NoProduct == <<>>
\* No saved credential: get_auth_string returns None (or an empty string).
NoAuthString == <<>>
\* The one authentication method handle_auth supports.
UsernamePassword == <<"Username:Password">>

ProductNames == {<<"Foo">>, <<"Foo", "Bar">>}
SavedAuthStrings == {NoAuthString, <<"alice", "secret">>, <<"bob", "pa", "ss">>}
Usernames == {<<"alice">>}
Passwords == {<<"secret">>, <<"pa", "ss">>}
DBStatuses == {"OK", "FAILED_TO_CONNECT"}
Permissions == {"SUPERUSER", "PRODUCT_ADMIN"}

\* ----------------------------------------------------------------- strings

\* s in t of two Python strings.
IsSubstring(s, t) ==
    \E i \in 0..(Len(t) - Len(s)) : SubSeq(t, i + 1, i + Len(s)) = s

\* ------------------------------------------------------------------ inputs

\* A product URL as typed: an empty scheme or port is a missing one.
ProductUrls ==
    {[scheme |-> "http", host |-> "localhost", port |-> "8001", product |-> n] :
        n \in ProductNames}
    \cup {[scheme |-> "", host |-> "localhost", port |-> "8001", product |-> <<"Foo">>],
          [scheme |-> "http", host |-> "localhost", port |-> "", product |-> <<"Foo">>]}

\* libcodechecker.util.split_product_url: the four parts, or a ValueError.
split_product_url(product_url) ==
    IF product_url.scheme = "" \/ product_url.host = "" \/ product_url.port = ""
    THEN [error |-> "ValueError", product_name |-> NoProduct]
    ELSE [error |-> "", product_name |-> product_url.product]

\* a handler that catches nothing
CaughtNever(result) == FALSE

\* "except ValueError" around split_product_url, in setup_client and in
\* setup_auth_client_from_url: what sends the process to sys.exit(2).
CaughtValueError(result) == result.error = "ValueError"

\* The Product objects a server may list.
Products ==
    [endpoint : ProductNames, accessible : BOOLEAN, databaseStatus : DBStatuses]

\* The answers to getProducts: lists of at most MaxProducts products.
ProductLists == UNION {[1..n -> Products] : n \in 0..MaxProducts}

\* The answers to getAcceptedAuthMethods.
MethodLists ==
    {<<>>, <<UsernamePassword>>, <<<<"Kerberos">>>>,
     <<<<"X-", "Username:Password">>>>, <<<<"Kerberos">>, UsernamePassword>>}

\* extra_params dicts, as lists of (key, value); a set is a value json cannot encode.
NotJsonEncodable == {"set([1])"}
ExtraParams ==
    {<<>>, <<<<"productID", "1">>>>, <<<<"productID", "set([1])">>>>}

\* The reports of the run the review status test works on.
Reports == {"report1", "report2"}

\* shared.ttypes.ReviewStatus, and the comments the test gives.
ReviewStatuses == {"UNREVIEWED", "CONFIRMED", "FALSE_POSITIVE", "WONT_FIX"}
Comments == {"", "This is really a bug", "This is not a bug"}

\* The review of a report nobody has reviewed.
NoReview == [status |-> "UNREVIEWED", comment |-> ""]

\* No call has been made on the service client.
NoReviewRet ==
    [call |-> "none", reportId |-> "", success |-> FALSE, review |-> NoReview]

\* ------------------------------------------------------- pure parts of the code

\* '/v' + CLIENT_API + '/Authentication'
AuthPath == <<"/v", "CLIENT_API", "/Authentication">>

\* The endpoint of ThriftProductHelper in setup_product_client.
ProductsPath(product_name) ==
    IF product_name = NoProduct
    THEN <<"/v", "CLIENT_API", "/Products">>
    ELSE <<"/">> \o product_name \o <<"/v", "CLIENT_API", "/Products">>

\* The client setup_service_client builds.
setup_service_client(product_name, session_token) ==
    [kind |-> "service",
     path |-> <<"/">> \o product_name \o <<"/v", "CLIENT_API", "/CodeCheckerService">>,
     token |-> session_token, value |-> FALSE]

\* The client setup_product_client builds.
ProductClient(product_name, session_token) ==
    [kind |-> "product", path |-> ProductsPath(product_name),
     token |-> session_token, value |-> FALSE]

\* The client setup_auth_client builds (and returns with its token).
AuthClient(session_token) ==
    [kind |-> "auth", path |-> AuthPath, token |-> session_token, value |-> FALSE]

\* A setup_auth_client that consults the store whatever token it was given.
UseStoredTokenAlways(session_token) == TRUE

\* "if not session_token" in setup_auth_client: the store is consulted.
UseStoredToken(session_token) == session_token = NoToken

\* A setup_auth_client that keeps the token it read.
TokenAfterAuthKeepsOld(session_token, session_token_new) == session_token

\* "if session_token_new: session_token = session_token_new"
TokenAfterAuth(session_token, session_token_new) ==
    IF session_token_new # NoToken THEN session_token_new ELSE session_token

\* A check that forgets sessionStillActive.
NeedsLoginIgnoringActive(auth_response) == auth_response.requiresAuthentication

\* A check that forgets requiresAuthentication.
NeedsLoginIgnoringRequired(auth_response) == ~auth_response.sessionStillActive

\* a handshake after which no login is ever needed
NeedsLoginNever(auth_response) == FALSE

\* "auth_response.requiresAuthentication and not auth_response.sessionStillActive"
NeedsLogin(auth_response) ==
    auth_response.requiresAuthentication /\ ~auth_response.sessionStillActive

\* An automatic login that does not ask whether autologin is enabled.
CanAutoLoginIgnoringFlag(is_autologin_enabled, auto_auth_string) ==
    auto_auth_string # NoAuthString

\* An automatic login that does not ask whether a credential is saved.
CanAutoLoginIgnoringString(is_autologin_enabled, auto_auth_string) ==
    is_autologin_enabled

\* "manager.is_autologin_enabled()" and a truthy "auto_auth_string"
CanAutoLogin(is_autologin_enabled, auto_auth_string) ==
    is_autologin_enabled /\ auto_auth_string # NoAuthString

\* "if auth_token and handshake.sessionStillActive" in handle_auth
AlreadyLoggedIn(auth_token, handshake) ==
    auth_token # NoToken /\ handshake.sessionStillActive

\* check_api_version that lets every server pass
check_api_versionLenient(accepted) == TRUE

\* check_api_version(auth_client): whether it returns; otherwise it has
\* logged the incompatibility and called sys.exit(1).
check_api_version(accepted) == accepted

\* an unsupported handshake taken as "authentication required"
HandshakeRequiredOnException(r) ==
    IF r.supported THEN r ELSE [r EXCEPT !.requiresAuthentication = TRUE]

\* perform_auth_for_handler's auth_response: the server's answer, or on
\* TApplicationException a HandshakeInformation with requiresAuthentication
\* set to False.
Handshake(r) ==
    IF r.supported THEN r ELSE [r EXCEPT !.requiresAuthentication = FALSE]

\* "if logout_done" turned round
ClearsTokenOnFailure(logout_done) == ~logout_done

\* "if logout_done" treated as always true
ClearsTokenAlways(logout_done) == TRUE

\* "if logout_done:" in handle_auth, before save_token(host, port, None, True)
ClearsToken(logout_done) == logout_done

\* a server that keeps the old comment when the new one is empty
ReviewAfterKeepsComment(old, status, message) ==
    [status |-> status, comment |-> IF message = "" THEN old.comment ELSE message]

\* The review of a report after changeReviewStatus(report_id, status,
\* message) on a report whose review was old.
ReviewAfter(old, status, message) == [status |-> status, comment |-> message]

\* str(methods) of a list of strings: "['a', 'b']"
RECURSIVE StrItems(_)
StrItems(methods) ==
    IF Len(methods) = 0 THEN <<>>
    ELSE IF Len(methods) = 1 THEN <<"'">> \o methods[1] \o <<"'">>
    ELSE <<"'">> \o methods[1] \o <<"'", ", ">> \o StrItems(Tail(methods))
Str(methods) == <<"[">> \o StrItems(methods) \o <<"]">>

\* "'Username:Password' in str(methods)"
MethodAccepted(methods) == IsSubstring(UsernamePassword, Str(methods))

\* saved_auth.split(":"): the pieces between the colons.
Split(saved_auth) == [i \in 1..Len(saved_auth) |-> <<saved_auth[i]>>]

\* username + ":" + pwd
Credential(username, pwd) == username \o pwd

\* The username and password handle_auth logs in with.
LoginUsername(saved_auth, username) ==
    IF saved_auth # NoAuthString THEN Split(saved_auth)[1] ELSE username
LoginPassword(saved_auth, typed) ==
    IF saved_auth # NoAuthString THEN Split(saved_auth)[2] ELSE typed

\* A validation that accepts an endpoint containing the requested name.
ProductErrorStrContainment(product, product_name) ==
    IF ~(Len(product) = 1) THEN "It does not exist."
    ELSE IF ~IsSubstring(product_name, product[1].endpoint) THEN "It does not exist."
    ELSE IF ~product[1].accessible THEN "You do not have access."
    ELSE IF product[1].databaseStatus # "OK"
         THEN "The database has issues, or the connection is badly configured."
    ELSE ""

\* A validation that looks at the database before the access.
ProductErrorStrDatabaseFirst(product, product_name) ==
    IF ~(Len(product) = 1) THEN "It does not exist."
    ELSE IF product[1].endpoint # product_name THEN "It does not exist."
    ELSE IF product[1].databaseStatus # "OK"
         THEN "The database has issues, or the connection is badly configured."
    ELSE IF ~product[1].accessible THEN "You do not have access."
    ELSE ""

\* The product_error_str of setup_client; "" is None.
ProductErrorStr(product, product_name) ==
    IF ~(Len(product) = 1) THEN "It does not exist."
    ELSE IF product[1].endpoint # product_name THEN "It does not exist."
    ELSE IF ~product[1].accessible THEN "You do not have access."
    ELSE IF product[1].databaseStatus # "OK"
         THEN "The database has issues, or the connection is badly configured."
    ELSE ""

\* A setup_client that asks for the product client of the product itself.
DirectoryScopeOfProduct(product_name) == product_name

\* setup_client asks setup_product_client for product_name=None.
DirectoryScope(product_name) == NoProduct

\* json.dumps(extra_params): the encoded string, or a TypeError.
RECURSIVE JsonItems(_)
JsonItems(extra_params) ==
    IF Len(extra_params) = 0 THEN <<>>
    ELSE <<"\"", extra_params[1][1], "\": ", extra_params[1][2]>>
         \o JsonItems(Tail(extra_params))
JsonDumps(extra_params) ==
    IF \E i \in DOMAIN extra_params : extra_params[i][2] \in NotJsonEncodable
    THEN <<"TypeError">>
    ELSE <<"{">> \o JsonItems(extra_params) \o <<"}">>

\* ------------------------------------------------------------------- state

VARIABLES
    \* the server
    requiresAuthentication, \* whether the server enforces authentication
    apiAccepted,            \* whether checkAPIVersion accepts this client
    handshakeSupported,     \* whether the server knows getAuthParameters
    sessions,               \* the tokens of the sessions that are active
    issued,                 \* the last token performLogin issued
    \* the credential store (UserCredentials)
    token,                  \* get_token / save_token
    auth_string,            \* get_auth_string
    autologin,              \* is_autologin_enabled
    \* the client process
    pc,                     \* where the running operation stands
    op,                     \* the running (or last) operation and its arguments
    call,                   \* setup_client: 1 its own session, 2 the product client's
    session_token,          \* setup_auth_client's session_token (handle_auth's auth_token)
    session_token_new,      \* the token performLogin returned
    outer_token,            \* setup_client's session_token
    auth_response,          \* the last handshake of the operation
    credential,             \* the credential string performLogin is called with
    \* what the operation did
    ret,                    \* what it returned
    exitStatus,             \* the status of sys.exit, 0 while none
    cause,                  \* the message of the fatal path or of the early return
    log,                    \* the RPCs and store accesses, in order
    logins,                 \* the tokens performLogin returned
    saves,                  \* the tokens save_token was called with
    sent,                   \* the credential strings performLogin was sent
    product,                \* the answer of getProducts
    methods,                \* the answer of getAcceptedAuthMethods
    logout_done,            \* the answer of destroySession
    reads,                  \* the tokens get_token returned
    started,                \* operations started so far
    prev,                   \* the operation before this one, as it ended
    \* a second client process on the same credential store, in handle_auth
    other_pc,               \* where its handle_auth stands
    other_login,            \* handle_auth's login
    other_token,            \* its auth_token
    other_token_new,        \* the token its performLogin returned
    other_started,          \* the operations it has started
    \* the analysis service of a product, used over a service client
    reviewData,             \* the review status and comment of each report
    changes,                \* the changeReviewStatus calls sent, in order
    reviewRet               \* what the last call on the service client returned

server == <<requiresAuthentication, apiAccepted, handshakeSupported, sessions, issued>>
store == <<token, auth_string, autologin>>
locals == <<call, session_token, session_token_new, outer_token, credential>>
history == <<log, logins, saves, sent, product, methods, logout_done, reads>>
other == <<other_pc, other_login, other_token, other_token_new, other_started>>
client == <<pc, op, locals, auth_response, ret, exitStatus, cause, history, started,
            prev>>
review == <<reviewData, changes, reviewRet>>
vars == <<server, store, client, other, review>>

NoRet == [kind |-> "none", path |-> <<>>, token |-> NoToken, value |-> FALSE]
Void == [kind |-> "void", path |-> <<>>, token |-> NoToken, value |-> FALSE]
Bool(b) == [kind |-> "bool", path |-> <<>>, token |-> NoToken, value |-> b]
Raised == [kind |-> "raised", path |-> <<>>, token |-> NoToken, value |-> FALSE]

NoHandshake ==
    [seen |-> FALSE, supported |-> FALSE,
     requiresAuthentication |-> FALSE, sessionStillActive |-> FALSE]

NoOp ==
    [kind |-> "none", session_token |-> NoToken, url_ok |-> TRUE,
     product_name |-> NoProduct, product_client |-> FALSE,
     username |-> <<>>, permission |-> "", extra_params |-> <<>>]

\* prev is kept of these operations: for the same operation following at once,
\* and for check_permission on the client setup_auth_client returned.
Repeated == {"setup_auth_client", "logout"}
NoPrev ==
    [op |-> NoOp, ret |-> NoRet, exitStatus |-> 0, auth_response |-> NoHandshake,
     token |-> NoToken]

Init ==
    /\ requiresAuthentication \in BOOLEAN
    /\ apiAccepted \in BOOLEAN
    /\ handshakeSupported \in BOOLEAN
    /\ sessions \in SUBSET {FirstToken}
    /\ issued = FirstToken
    /\ token \in {NoToken, FirstToken}
    /\ auth_string \in SavedAuthStrings
    /\ autologin \in BOOLEAN
    /\ pc = "idle"
    /\ op = NoOp
    /\ call = 0
    /\ session_token = NoToken
    /\ session_token_new = NoToken
    /\ outer_token = NoToken
    /\ auth_response = NoHandshake
    /\ credential = <<>>
    /\ ret = NoRet
    /\ exitStatus = 0
    /\ cause = ""
    /\ log = <<>>
    /\ logins = <<>>
    /\ saves = <<>>
    /\ sent = <<>>
    /\ product = <<>>
    /\ methods = <<>>
    /\ logout_done = FALSE
    /\ reads = <<>>
    /\ started = 0
    /\ prev = NoPrev
    /\ other_pc = "idle"
    /\ other_login = FALSE
    /\ other_token = NoToken
    /\ other_token_new = NoToken
    /\ other_started = 0
    /\ reviewData = [r \in Reports |-> NoReview]
    /\ changes = <<>>
    /\ reviewRet = NoReviewRet

\* ------------------------------------------------------------ the server

\* getAuthParameters on a client bound to tok: the handshake, or a
\* TApplicationException of a server that does not know the call.
HandshakeAnswers(tok) ==
    IF ~handshakeSupported
    THEN {[seen |-> TRUE, supported |-> FALSE,
           requiresAuthentication |-> FALSE, sessionStillActive |-> FALSE]}
    ELSE {[seen |-> TRUE, supported |-> TRUE,
           requiresAuthentication |-> requiresAuthentication,
           sessionStillActive |-> a] :
            a \in IF requiresAuthentication THEN {tok \in sessions} ELSE BOOLEAN}

\* The server ends a session (expiry).
ExpireSession ==
    /\ \E t \in sessions : sessions' = sessions \ {t}
    /\ UNCHANGED <<requiresAuthentication, apiAccepted, handshakeSupported, issued,
                   store, pc, op, locals, auth_response, ret, exitStatus, cause,
                   history, started, prev, other, review>>

\* ------------------------------------------------- the ends of an operation

\* The locals of a finished operation are gone.
DropLocals ==
    /\ call' = 0
    /\ session_token' = NoToken
    /\ session_token_new' = NoToken
    /\ outer_token' = NoToken
    /\ credential' = <<>>

\* The operation returns r to its caller.
Return(r, why) ==
    /\ pc' = "idle"
    /\ ret' = r
    /\ cause' = why
    /\ UNCHANGED exitStatus
    /\ DropLocals

\* sys.exit(status) after the message why.
Exit(status, why) ==
    /\ pc' = "exited"
    /\ exitStatus' = status
    /\ cause' = why
    /\ UNCHANGED ret
    /\ DropLocals

\* The caller has taken what the operation returned, or the process has
\* exited: the next operation finds nothing of this one but the store, the
\* server and, for the claims on repeated calls, how it ended.
next_call ==
    /\ pc \in {"idle", "exited"}
    /\ op.kind # "none"
    /\ pc' = "idle"
    /\ op' = NoOp
    /\ prev' = IF op.kind \in Repeated
               THEN [op |-> op, ret |-> ret, exitStatus |-> exitStatus,
                     auth_response |-> auth_response, token |-> token]
               ELSE NoPrev
    /\ ret' = NoRet
    /\ exitStatus' = 0
    /\ cause' = ""
    /\ auth_response' = NoHandshake
    /\ log' = <<>>
    /\ logins' = <<>>
    /\ saves' = <<>>
    /\ sent' = <<>>
    /\ product' = <<>>
    /\ methods' = <<>>
    /\ logout_done' = FALSE
    /\ reads' = <<>>
    /\ UNCHANGED <<server, store, locals, started, other, review>>

\* A new operation starts; prev stays when it repeats the one before.
Begin(o, firstLog) ==
    /\ pc = "idle"
    /\ op.kind = "none"
    /\ started < MaxOps
    /\ started' = started + 1
    /\ op' = o
    /\ prev' = IF o.kind = prev.op.kind THEN prev ELSE NoPrev
    /\ auth_response' = NoHandshake
    /\ log' = firstLog
    /\ reads' = IF firstLog = <<"get_token">> THEN <<token>> ELSE <<>>
    /\ UNCHANGED <<logins, saves, sent, product, methods, logout_done, other, review>>

\* The new operation runs on from label.
Enter(label) ==
    /\ pc' = label
    /\ ret' = NoRet
    /\ exitStatus' = 0
    /\ cause' = ""

\* The new operation ends in sys.exit(status) before it does anything else.
ExitAtOnce(status, why) ==
    /\ pc' = "exited"
    /\ ret' = NoRet
    /\ exitStatus' = status
    /\ cause' = why

\* ------------------------------------------------------ setup_auth_client

\* setup_auth_client(protocol, host, port, session_token): up to the first RPC.
\* Without a token the store's token is read and perform_auth_for_handler runs.
setup_auth_client(t) ==
    /\ Begin([NoOp EXCEPT !.kind = "setup_auth_client", !.session_token = t],
             IF UseStoredToken(t) THEN <<"get_token">> ELSE <<>>)
    /\ Enter(IF UseStoredToken(t) THEN "pafh_version" ELSE "sac_version")
    /\ session_token' = (IF UseStoredToken(t) THEN token ELSE t)
    /\ UNCHANGED <<server, store, call, session_token_new, outer_token, credential>>

\* setup_auth_client_from_url(product_url, session_token)
setup_auth_client_from_url(u, t) ==
    /\ Begin([NoOp EXCEPT !.kind = "setup_auth_client_from_url", !.session_token = t,
                          !.url_ok = (split_product_url(u).error = "")],
             IF split_product_url(u).error = "" /\ UseStoredToken(t)
             THEN <<"get_token">> ELSE <<>>)
    /\ IF CaughtValueError(split_product_url(u))
       THEN /\ ExitAtOnce(2, "Malformed product URL was provided.")
            /\ UNCHANGED session_token
       ELSE /\ Enter(IF UseStoredToken(t) THEN "pafh_version" ELSE "sac_version")
            /\ session_token' = (IF UseStoredToken(t) THEN token ELSE t)
    /\ UNCHANGED <<server, store, call, session_token_new, outer_token, credential>>

\* perform_auth_for_handler: check_api_version(auth_client).
pafh_check_api_version ==
    /\ pc = "pafh_version"
    /\ log' = Append(log, "checkAPIVersion")
    /\ IF check_api_version(apiAccepted)
       THEN /\ pc' = "pafh_handshake"
            /\ UNCHANGED <<locals, ret, exitStatus, cause>>
       ELSE Exit(1, "Incompatible client/server API.")
    /\ UNCHANGED <<server, store, op, auth_response, logins, saves, sent, product,
                   methods, logout_done, other, review, started, prev, reads>>

\* What perform_auth_for_handler reads of the store once the handshake is in.
StoreReads(r) ==
    IF ~NeedsLogin(r) THEN <<>>
    ELSE IF ~autologin THEN <<"is_autologin_enabled">>
    ELSE <<"is_autologin_enabled", "get_auth_string">>

\* perform_auth_for_handler: getAuthParameters, and the decision on its answer.
pafh_getAuthParameters ==
    /\ pc = "pafh_handshake"
    /\ \E r \in HandshakeAnswers(session_token) :
        /\ auth_response' = Handshake(r)
        /\ log' = Append(log, "getAuthParameters") \o StoreReads(Handshake(r))
        /\ IF ~NeedsLogin(Handshake(r))
           THEN /\ pc' = "sac_version"
                /\ UNCHANGED <<locals, ret, exitStatus, cause>>
           ELSE IF CanAutoLogin(autologin, auth_string)
           THEN /\ pc' = "pafh_login"
                /\ credential' = auth_string
                /\ UNCHANGED <<call, session_token, session_token_new, outer_token,
                               ret, exitStatus, cause>>
           ELSE Exit(1, "Access denied. This server requires authentication.")
    /\ UNCHANGED <<server, store, op, logins, saves, sent, product, methods,
                   logout_done, other, review,
                   started, prev, reads>>

\* perform_auth_for_handler: performLogin("Username:Password", auto_auth_string).
pafh_performLogin ==
    /\ pc = "pafh_login"
    /\ log' = Append(log, "performLogin")
    /\ sent' = Append(sent, credential)
    /\ \/ /\ issued' = issued + 1
          /\ sessions' = sessions \cup {issued + 1}
          /\ session_token_new' = issued + 1
          /\ logins' = Append(logins, issued + 1)
          /\ pc' = "pafh_save"
          /\ UNCHANGED <<call, session_token, outer_token, credential,
                         ret, exitStatus, cause>>
       \/ /\ Exit(1, "Access denied. This server requires authentication.")
          /\ UNCHANGED <<issued, sessions, logins>>
    /\ UNCHANGED <<requiresAuthentication, apiAccepted, handshakeSupported, store, op,
                   auth_response, saves, product, methods, logout_done, other, review,
                   started, prev, reads>>

\* perform_auth_for_handler: manager.save_token(host, port, session_token), and
\* the return of the token to setup_auth_client.
pafh_save_token ==
    /\ pc = "pafh_save"
    /\ log' = Append(log, "save_token")
    /\ token' = session_token_new
    /\ saves' = Append(saves, session_token_new)
    /\ session_token' = TokenAfterAuth(session_token, session_token_new)
    /\ pc' = "sac_version"
    /\ UNCHANGED <<server, auth_string, autologin, op, call, session_token_new,
                   outer_token, credential, auth_response, ret, exitStatus, cause,
                   logins, sent, product, methods, logout_done, other, review,
                   started, prev, reads>>
\* The product the product client of this operation is scoped to.
Scope ==
    IF op.kind = "setup_client" THEN DirectoryScope(op.product_name)
    ELSE op.product_name

\* setup_auth_client: check_api_version(client) on the client bound to the
\* session token, and the return to the caller: the operation itself,
\* setup_client (which goes on to setup_product_client and so to a second
\* setup_auth_client) or setup_product_client.
sac_check_api_version ==
    /\ pc = "sac_version"
    /\ IF ~check_api_version(apiAccepted)
       THEN /\ Exit(1, "Incompatible client/server API.")
            /\ log' = Append(log, "checkAPIVersion")
            /\ UNCHANGED reads
       ELSE IF op.kind \in {"setup_auth_client", "setup_auth_client_from_url"}
       THEN /\ Return(AuthClient(session_token), "")
            /\ log' = Append(log, "checkAPIVersion")
            /\ UNCHANGED reads
       ELSE IF call = 1
       THEN /\ outer_token' = session_token
            /\ call' = 2
            /\ session_token' = token
            /\ session_token_new' = NoToken
            /\ credential' = <<>>
            /\ pc' = "pafh_version"
            /\ log' = log \o <<"checkAPIVersion", "get_token">>
            /\ reads' = Append(reads, token)
            /\ UNCHANGED <<ret, exitStatus, cause>>
       ELSE IF Scope # NoProduct
       THEN /\ pc' = "spc_probe"
            /\ log' = Append(log, "checkAPIVersion")
            /\ UNCHANGED reads
            /\ UNCHANGED <<locals, ret, exitStatus, cause>>
       ELSE IF op.kind = "setup_client"
       THEN /\ pc' = "sc_products"
            /\ log' = Append(log, "checkAPIVersion")
            /\ UNCHANGED reads
            /\ UNCHANGED <<locals, ret, exitStatus, cause>>
       ELSE /\ Return(ProductClient(Scope, session_token), "")
            /\ log' = Append(log, "checkAPIVersion")
            /\ UNCHANGED reads
    /\ UNCHANGED <<server, store, op, auth_response, logins, saves, sent, product,
                   methods, logout_done, other, review, started, prev>>

\* --------------------------------------- setup_product_client, setup_client

\* setup_product_client(protocol, host, port, product_name), called directly.
setup_product_client(n) ==
    /\ Begin([NoOp EXCEPT !.kind = "setup_product_client", !.product_name = n],
             <<"get_token">>)
    /\ Enter("pafh_version")
    /\ call' = 2
    /\ session_token' = token
    /\ UNCHANGED <<server, store, session_token_new, outer_token, credential>>

\* setup_product_client with a product name: getPackageVersion and
\* getCurrentProduct on the scoped endpoint ("not a or not b").
spc_probe ==
    /\ pc = "spc_probe"
    /\ \E version \in BOOLEAN, current \in BOOLEAN :
        /\ log' = log \o (IF version THEN <<"getPackageVersion", "getCurrentProduct">>
                          ELSE <<"getPackageVersion">>)
        /\ IF ~version \/ ~current
           THEN Exit(1, "The product cannot be communicated with.")
           ELSE IF op.kind = "setup_client"
           THEN /\ pc' = "sc_products"
                /\ UNCHANGED <<locals, ret, exitStatus, cause>>
           ELSE Return(ProductClient(Scope, session_token), "")
    /\ UNCHANGED <<server, store, op, auth_response, logins, saves, sent, product,
                   methods, logout_done, other, review, started, prev, reads>>

\* setup_client(product_url, product_client): the URL, and the first
\* setup_auth_client up to its first RPC.
setup_client(u, wants) ==
    /\ Begin([NoOp EXCEPT !.kind = "setup_client",
                          !.url_ok = (split_product_url(u).error = ""),
                          !.product_name = split_product_url(u).product_name,
                          !.product_client = wants],
             IF split_product_url(u).error = "" THEN <<"get_token">> ELSE <<>>)
    /\ IF CaughtValueError(split_product_url(u))
       THEN /\ ExitAtOnce(2, "Malformed product URL was provided.")
            /\ UNCHANGED <<call, session_token>>
       ELSE /\ Enter("pafh_version")
            /\ call' = 1
            /\ session_token' = token
    /\ UNCHANGED <<server, store, session_token_new, outer_token, credential>>

\* setup_client: getProducts(product_name, None) on the product client, the
\* validation of the answer, and the client returned.
sc_getProducts ==
    /\ pc = "sc_products"
    /\ \E p \in ProductLists :
        /\ product' = p
        /\ log' = Append(log, "getProducts")
        /\ IF ProductErrorStr(p, op.product_name) # ""
           THEN Exit(1, ProductErrorStr(p, op.product_name))
           ELSE IF op.product_client
           THEN Return(ProductClient(Scope, session_token), "")
           ELSE Return(setup_service_client(op.product_name, outer_token), "")
    /\ UNCHANGED <<server, store, op, auth_response, logins, saves, sent, methods,
                   logout_done, other, review,
                   started, prev, reads>>
\* ------------------------------------------------------------- handle_auth

\* handle_auth(protocol, host, port, username, login): the store's token is
\* read; session_token holds auth_token.
handle_auth(username, login) ==
    /\ Begin([NoOp EXCEPT !.kind = IF login THEN "login" ELSE "logout",
                          !.username = username],
             <<"get_token">>)
    /\ Enter("ha_version")
    /\ session_token' = token
    /\ UNCHANGED <<server, store, call, session_token_new, outer_token, credential>>

\* handle_auth: check_api_version(auth_client).
ha_check_api_version ==
    /\ pc = "ha_version"
    /\ log' = Append(log, "checkAPIVersion")
    /\ IF check_api_version(apiAccepted)
       THEN /\ pc' = (IF op.kind = "login" THEN "ha_handshake" ELSE "ha_destroy")
            /\ UNCHANGED <<locals, ret, exitStatus, cause>>
       ELSE Exit(1, "Incompatible client/server API.")
    /\ UNCHANGED <<server, store, op, auth_response, logins, saves, sent, product,
                   methods, logout_done, other, review, started, prev, reads>>

\* handle_auth, logout: destroySession ends the session of the client's token,
\* if there is one.
ha_destroySession ==
    /\ pc = "ha_destroy"
    /\ log' = Append(log, "destroySession")
    /\ sessions' = sessions \ {session_token}
    /\ logout_done' = (session_token \in sessions)
    /\ IF ClearsToken(session_token \in sessions)
       THEN /\ pc' = "ha_clear"
            /\ UNCHANGED <<locals, ret, exitStatus, cause>>
       ELSE Return(Void, "")
    /\ UNCHANGED <<requiresAuthentication, apiAccepted, handshakeSupported, issued,
                   store, op, auth_response, logins, saves, sent, product, methods,
                   other, review, started, prev, reads>>

\* handle_auth, logout: session.save_token(host, port, None, True).
ha_clear_token ==
    /\ pc = "ha_clear"
    /\ log' = Append(log, "save_token")
    /\ token' = NoToken
    /\ saves' = Append(saves, NoToken)
    /\ Return(Void, "Successfully logged out.")
    /\ UNCHANGED <<server, auth_string, autologin, op, auth_response, logins, sent,
                   product, methods, logout_done, other, review, started, prev, reads>>

\* handle_auth, login: getAuthParameters and the early returns.
ha_getAuthParameters ==
    /\ pc = "ha_handshake"
    /\ log' = Append(log, "getAuthParameters")
    /\ \E r \in HandshakeAnswers(session_token) :
        /\ auth_response' = r
        /\ IF ~r.supported
           THEN Return(Void, "This server does not support privileged access.")
           ELSE IF ~r.requiresAuthentication
           THEN Return(Void, "This server does not require privileged access.")
           ELSE IF AlreadyLoggedIn(session_token, r)
           THEN Return(Void, "You are already logged in.")
           ELSE /\ pc' = "ha_methods"
                /\ UNCHANGED <<locals, ret, exitStatus, cause>>
    /\ UNCHANGED <<server, store, op, logins, saves, sent, product, methods,
                   logout_done, other, review,
                   started, prev, reads>>

\* handle_auth, login: getAcceptedAuthMethods, then the saved credential or
\* the password prompt.
ha_getAcceptedAuthMethods ==
    /\ pc = "ha_methods"
    /\ \E m \in MethodLists, typed \in Passwords :
        /\ methods' = m
        /\ IF ~MethodAccepted(m)
           THEN /\ Exit(1, "No authentication methods were reported by the server that this client could support.")
                /\ log' = Append(log, "getAcceptedAuthMethods")
           ELSE /\ log' = log \o <<"getAcceptedAuthMethods", "get_auth_string">>
                          \o (IF auth_string # NoAuthString THEN <<>> ELSE <<"getpass">>)
                /\ credential' = Credential(LoginUsername(auth_string, op.username),
                                            LoginPassword(auth_string, typed))
                /\ pc' = "ha_login"
                /\ UNCHANGED <<call, session_token, session_token_new, outer_token,
                               ret, exitStatus, cause>>
    /\ UNCHANGED <<server, store, op, auth_response, logins, saves, sent, product,
                   logout_done, other, review, started, prev, reads>>

\* handle_auth, login: performLogin("Username:Password", username + ":" + pwd).
ha_performLogin ==
    /\ pc = "ha_login"
    /\ log' = Append(log, "performLogin")
    /\ sent' = Append(sent, credential)
    /\ \/ /\ issued' = issued + 1
          /\ sessions' = sessions \cup {issued + 1}
          /\ session_token_new' = issued + 1
          /\ logins' = Append(logins, issued + 1)
          /\ pc' = "ha_save"
          /\ UNCHANGED <<call, session_token, outer_token, credential,
                         ret, exitStatus, cause>>
       \/ /\ Exit(1, "Authentication failed! Please check your credentials.")
          /\ UNCHANGED <<issued, sessions, logins>>
    /\ UNCHANGED <<requiresAuthentication, apiAccepted, handshakeSupported, store, op,
                   auth_response, saves, product, methods, logout_done, other, review,
                   started, prev, reads>>

\* handle_auth, login: session.save_token(host, port, session_token).
ha_save_token ==
    /\ pc = "ha_save"
    /\ log' = Append(log, "save_token")
    /\ token' = session_token_new
    /\ saves' = Append(saves, session_token_new)
    /\ Return(Void, "Server reported successful authentication.")
    /\ UNCHANGED <<server, auth_string, autologin, op, auth_response, logins, sent,
                   product, methods, logout_done, other, review, started, prev, reads>>

\* -------------------------------------------------------- check_permission

\* check_permission(auth_client, permission_enum, extra_params), on the client
\* setup_auth_client has just returned: json.dumps runs before the try; inside
\* it hasPermission answers or raises.
check_permission(t, permission, extra_params) ==
    /\ prev.ret = AuthClient(t)
    /\ Begin([NoOp EXCEPT !.kind = "check_permission", !.session_token = t,
                          !.permission = permission, !.extra_params = extra_params],
             IF JsonDumps(extra_params) = <<"TypeError">>
             THEN <<"json.dumps">> ELSE <<"json.dumps", "hasPermission">>)
    /\ pc' = "idle"
    /\ exitStatus' = 0
    /\ IF JsonDumps(extra_params) = <<"TypeError">>
       THEN /\ ret' = Raised
            /\ cause' = "TypeError"
       ELSE \E answer \in {"true", "false", "raises"} :
            /\ ret' = Bool(answer = "true")
            /\ cause' = (IF answer = "raises"
                         THEN "Failed to query the permission." ELSE "")
    /\ UNCHANGED <<server, store, locals>>

\* ------------------------------------------------------------------- spec

Tokens == NoToken..issued

Next ==
    \/ \E t \in Tokens : setup_auth_client(t)
    \/ \E u \in ProductUrls, t \in Tokens : setup_auth_client_from_url(u, t)
    \/ pafh_check_api_version
    \/ pafh_getAuthParameters
    \/ pafh_performLogin
    \/ pafh_save_token
    \/ sac_check_api_version
    \/ \E n \in ProductNames \cup {NoProduct} : setup_product_client(n)
    \/ spc_probe
    \/ \E u \in ProductUrls, wants \in BOOLEAN : setup_client(u, wants)
    \/ sc_getProducts
    \/ \E username \in Usernames, login \in BOOLEAN : handle_auth(username, login)
    \/ ha_check_api_version
    \/ ha_destroySession
    \/ ha_clear_token
    \/ ha_getAuthParameters
    \/ ha_getAcceptedAuthMethods
    \/ ha_performLogin
    \/ ha_save_token
    \/ \E t \in Tokens, permission \in Permissions, extra_params \in ExtraParams :
        check_permission(t, permission, extra_params)
    \/ next_call
    \/ ExpireSession

Spec == Init /\ [][Next]_vars

\* ------------------------------------- a second process on the same store

\* Another client process runs handle_auth (login or logout) against the same
\* server and the same credential store, which no lock guards: each of its
\* RPCs and store accesses is a step that may fall between any two steps of
\* the first process.

\* handle_auth: session.get_token(host, port).
other_handle_auth(login) ==
    /\ other_pc = "idle"
    /\ other_started < MaxOtherOps
    /\ other_started' = other_started + 1
    /\ other_login' = login
    /\ other_token' = token
    /\ other_token_new' = NoToken
    /\ other_pc' = "ha_version"
    /\ UNCHANGED <<server, store, client, review>>

\* handle_auth: check_api_version(auth_client).
other_check_api_version ==
    /\ other_pc = "ha_version"
    /\ other_pc' = IF ~check_api_version(apiAccepted) THEN "idle"
                   ELSE IF other_login THEN "ha_handshake" ELSE "ha_destroy"
    /\ UNCHANGED <<server, store, client, review, other_login, other_token,
                   other_token_new, other_started>>

\* handle_auth, logout: destroySession.
other_destroySession ==
    /\ other_pc = "ha_destroy"
    /\ sessions' = sessions \ {other_token}
    /\ other_pc' = IF ClearsToken(other_token \in sessions) THEN "ha_clear" ELSE "idle"
    /\ UNCHANGED <<requiresAuthentication, apiAccepted, handshakeSupported, issued,
                   store, client, review, other_login, other_token, other_token_new,
                   other_started>>

\* handle_auth, logout: session.save_token(host, port, None, True).
other_clear_token ==
    /\ other_pc = "ha_clear"
    /\ token' = NoToken
    /\ other_pc' = "idle"
    /\ UNCHANGED <<server, auth_string, autologin, client, review, other_login, other_token,
                   other_token_new, other_started>>

\* handle_auth, login: getAuthParameters and the early returns.
other_getAuthParameters ==
    /\ other_pc = "ha_handshake"
    /\ \E r \in HandshakeAnswers(other_token) :
        other_pc' = IF \/ ~r.supported
                       \/ ~r.requiresAuthentication
                       \/ AlreadyLoggedIn(other_token, r)
                    THEN "idle" ELSE "ha_methods"
    /\ UNCHANGED <<server, store, client, review, other_login, other_token,
                   other_token_new, other_started>>

\* handle_auth, login: getAcceptedAuthMethods, then the credential.
other_getAcceptedAuthMethods ==
    /\ other_pc = "ha_methods"
    /\ \E m \in MethodLists :
        other_pc' = IF MethodAccepted(m) THEN "ha_login" ELSE "idle"
    /\ UNCHANGED <<server, store, client, review, other_login, other_token,
                   other_token_new, other_started>>

\* handle_auth, login: performLogin, which returns a token or raises.
other_performLogin ==
    /\ other_pc = "ha_login"
    /\ \/ /\ issued' = issued + 1
          /\ sessions' = sessions \cup {issued + 1}
          /\ other_token_new' = issued + 1
          /\ other_pc' = "ha_save"
       \/ /\ other_pc' = "idle"
          /\ UNCHANGED <<issued, sessions, other_token_new>>
    /\ UNCHANGED <<requiresAuthentication, apiAccepted, handshakeSupported, store,
                   client, review, other_login, other_token, other_started>>

\* handle_auth, login: session.save_token(host, port, session_token).
other_save_token ==
    /\ other_pc = "ha_save"
    /\ token' = other_token_new
    /\ other_pc' = "idle"
    /\ UNCHANGED <<server, auth_string, autologin, client, review, other_login, other_token,
                   other_token_new, other_started>>

\* The first process runs setup_auth_client without a token while the second
\* logs out or in and the server expires sessions.
NextShared ==
    \/ setup_auth_client(NoToken)
    \/ pafh_check_api_version
    \/ pafh_getAuthParameters
    \/ pafh_performLogin
    \/ pafh_save_token
    \/ sac_check_api_version
    \/ next_call
    \/ \E login \in BOOLEAN : other_handle_auth(login)
    \/ other_check_api_version
    \/ other_destroySession
    \/ other_clear_token
    \/ other_getAuthParameters
    \/ other_getAcceptedAuthMethods
    \/ other_performLogin
    \/ other_save_token
    \/ ExpireSession

SpecShared == Init /\ [][NextShared]_vars

\* ------------------------------------ the review status of a report

\* setup_client has returned an analysis-service client.
Established == pc = "idle" /\ op.kind = "setup_client" /\ ret.kind = "service"

\* The state in which setup_client("http://localhost:8001/Foo") has returned
\* its service client from a server that requires no authentication.
InitReview ==
    /\ requiresAuthentication = FALSE
    /\ apiAccepted = TRUE
    /\ handshakeSupported = TRUE
    /\ sessions = {}
    /\ issued = FirstToken
    /\ token = NoToken
    /\ auth_string = NoAuthString
    /\ autologin = FALSE
    /\ pc = "idle"
    /\ op = [NoOp EXCEPT !.kind = "setup_client", !.product_name = <<"Foo">>]
    /\ call = 0
    /\ session_token = NoToken
    /\ session_token_new = NoToken
    /\ outer_token = NoToken
    /\ auth_response = [seen |-> TRUE, supported |-> TRUE,
                        requiresAuthentication |-> FALSE,
                        sessionStillActive |-> FALSE]
    /\ credential = <<>>
    /\ ret = setup_service_client(<<"Foo">>, NoToken)
    /\ exitStatus = 0
    /\ cause = ""
    /\ log = <<"get_token", "checkAPIVersion", "getAuthParameters",
               "checkAPIVersion", "get_token", "checkAPIVersion",
               "getAuthParameters", "checkAPIVersion", "getProducts">>
    /\ logins = <<>>
    /\ saves = <<>>
    /\ sent = <<>>
    /\ product = <<[endpoint |-> <<"Foo">>, accessible |-> TRUE,
                    databaseStatus |-> "OK"]>>
    /\ methods = <<>>
    /\ logout_done = FALSE
    /\ reads = <<NoToken, NoToken>>
    /\ started = 1
    /\ prev = NoPrev
    /\ other_pc = "idle"
    /\ other_login = FALSE
    /\ other_token = NoToken
    /\ other_token_new = NoToken
    /\ other_started = 0
    /\ reviewData = [r \in Reports |-> NoReview]
    /\ changes = <<>>
    /\ reviewRet = NoReviewRet

\* changeReviewStatus(report_id, status, message) on the service client: the
\* server stores the status and the comment as the review of the report and
\* answers true.
changeReviewStatus(report_id, status, message) ==
    /\ Established
    /\ Len(changes) < MaxChanges
    /\ reviewData' = [reviewData EXCEPT
                        ![report_id] = ReviewAfter(@, status, message)]
    /\ changes' = Append(changes, [reportId |-> report_id, status |-> status,
                                   comment |-> message])
    /\ reviewRet' = [call |-> "changeReviewStatus", reportId |-> report_id,
                     success |-> TRUE, review |-> NoReview]
    /\ UNCHANGED <<server, store, client, other>>

\* getReport(report_id) on the service client: the report with its review.
getReport(report_id) ==
    /\ Established
    /\ reviewRet' = [call |-> "getReport", reportId |-> report_id,
                     success |-> TRUE, review |-> reviewData[report_id]]
    /\ UNCHANGED <<server, store, client, other, reviewData, changes>>

NextReview ==
    \/ \E report_id \in Reports, status \in ReviewStatuses, message \in Comments :
        changeReviewStatus(report_id, status, message)
    \/ \E report_id \in Reports : getReport(report_id)

SpecReview == InitReview /\ [][NextReview]_vars

\* ----------------------------------------------------------------- claims

\* The number of times event e was logged.
Count(e, l) == Cardinality({i \in DOMAIN l : l[i] = e})

\* The operation has ended: it returned or the process exited.
Ended == pc \in {"idle", "exited"} /\ op.kind # "none"

\* The operation returned to its caller.
Returned == pc = "idle" /\ op.kind # "none"

\* ensureSession: setup_auth_client, directly or from a URL.
IsEnsureSession(o) == o.kind \in {"setup_auth_client", "setup_auth_client_from_url"}

\* The automatic flow: every operation that runs perform_auth_for_handler.
IsAutomatic(o) ==
    o.kind \in {"setup_auth_client", "setup_auth_client_from_url", "setup_client",
                "setup_product_client"}

\* A call of ensureSession without a token whose handshake said: authentication
\* required, session still active.
StillActiveCall(o, h) ==
    /\ o.kind = "setup_auth_client"
    /\ o.session_token = NoToken
    /\ h.seen /\ h.requiresAuthentication /\ h.sessionStillActive

\* performLogin was sent and raised RequestFailed.
LoginRejected == Count("performLogin", log) > Len(logins)

\* C1: ensureSession is idempotent. A call without a token whose handshake
\* reports an active session of a server that requires authentication sends no
\* performLogin, writes nothing to the credential store and returns the token it
\* read; and when two such calls follow one another, both return the same token
\* and the store holds the same token after each.
C1_EnsureSessionIdempotent ==
    StillActiveCall(op, auth_response) =>
        /\ Count("performLogin", log) = 0
        /\ Count("save_token", log) = 0
        /\ saves = <<>>
        /\ pc # "exited"
        /\ Returned =>
            /\ ret = AuthClient(reads[1])
            /\ ret.token = token
            /\ (StillActiveCall(prev.op, prev.auth_response) =>
                    /\ prev.ret.kind = "auth"
                    /\ ret.token = prev.ret.token
                    /\ token = prev.token)

\* C1 witness: the second of two calls in a row has returned the stored token.
C1_Witness ==
    /\ Returned
    /\ StillActiveCall(op, auth_response)
    /\ StillActiveCall(prev.op, prev.auth_response)
    /\ ret.token = FirstToken
    /\ prev.ret.token = FirstToken
    /\ autologin /\ auth_string # NoAuthString

\* C2: once the handshake of an operation has reported
\* requiresAuthentication=false, the operation sends no performLogin, in the
\* automatic flow and in the explicit login, whatever the stored token, the
\* saved credential string and the autologin flag are.
C2_NoLoginWhenNotRequired ==
    (auth_response.seen /\ ~auth_response.requiresAuthentication) =>
        /\ Count("performLogin", log) = 0
        /\ sent = <<>>
        /\ pc \notin {"pafh_login", "ha_methods", "ha_login"}

\* C2 witness: an explicit login with a saved credential and no active session
\* returned at the handshake of a server that requires no authentication.
C2_Witness ==
    /\ Returned
    /\ op.kind = "login"
    /\ auth_response.supported
    /\ ~auth_response.requiresAuthentication
    /\ ~auth_response.sessionStillActive
    /\ auth_string # NoAuthString
    /\ autologin

\* C3: with autologin disabled the automatic flow sends no performLogin, so no
\* saved credential string, and never calls get_auth_string.
C3_NoAutologinNoCredentialSent ==
    (~autologin /\ IsAutomatic(op)) =>
        /\ Count("performLogin", log) = 0
        /\ Count("get_auth_string", log) = 0
        /\ sent = <<>>
        /\ credential = <<>>

\* C3 witness: authentication was needed, a credential is saved, autologin is
\* disabled, and the automatic flow ended.
C3_Witness ==
    /\ Ended
    /\ op.kind = "setup_auth_client"
    /\ ~autologin
    /\ auth_string # NoAuthString
    /\ auth_response.seen
    /\ NeedsLogin(auth_response)
    /\ Count("is_autologin_enabled", log) = 1

\* C4: in the automatic flow, when the handshake says that authentication is
\* required and the session is not active, and autologin is disabled or no
\* credential is saved or the server rejected the saved one, the process has
\* exited with status 1 on the access denied path, nothing was returned and no
\* password was asked for; the automatic flow never asks for a password.
C4_AccessDeniedExit ==
    IsAutomatic(op) =>
        /\ Count("getpass", log) = 0
        /\ (/\ auth_response.seen
            /\ NeedsLogin(auth_response)
            /\ ~autologin \/ auth_string = NoAuthString \/ LoginRejected)
            => /\ pc = "exited"
               /\ exitStatus = 1
               /\ cause = "Access denied. This server requires authentication."
               /\ ret = NoRet

\* C4 witness: the server rejected the saved credential of an automatic login.
C4_Witness ==
    /\ op.kind = "setup_auth_client"
    /\ autologin
    /\ auth_string # NoAuthString
    /\ LoginRejected
    /\ exitStatus = 1

\* C5: when ensureSession without a token has returned and its handshake said
\* that authentication is required and the session not active, it has sent the
\* saved credential string once, returns the token performLogin issued, which
\* is not the token it read from the store, on a client bound to that token,
\* and save_token was called exactly once, with that token.
C5_AutologinReturnsNewToken ==
    (/\ Returned
     /\ IsEnsureSession(op)
     /\ op.session_token = NoToken
     /\ NeedsLogin(auth_response)) =>
        /\ autologin /\ auth_string # NoAuthString
        /\ sent = <<auth_string>>
        /\ Len(logins) = 1
        /\ ret = AuthClient(logins[1])
        /\ ret.token # reads[1]
        /\ ret.token # NoToken
        /\ saves = <<logins[1]>>
        /\ Count("save_token", log) = 1
        /\ token = logins[1]

\* C5 witness: a stored token that is no longer active was replaced.
C5_Witness ==
    /\ Returned
    /\ op.kind = "setup_auth_client"
    /\ reads = <<FirstToken>>
    /\ NeedsLogin(auth_response)
    /\ ret.token = FirstToken + 1
    /\ token = FirstToken + 1

\* C6, as claimed: ensureSession returns a token without having logged in only
\* when its handshake reported requiresAuthentication=false (read here as: or
\* the server would have reported it), or when a token is present and its
\* handshake reported sessionStillActive=true.
C6_Original ==
    (Returned /\ op.kind = "setup_auth_client" /\ Count("performLogin", log) = 0) =>
        \/ ~requiresAuthentication \/ ~handshakeSupported
        \/ auth_response.seen /\ ~auth_response.requiresAuthentication
        \/ ret.token # NoToken /\ auth_response.seen /\ auth_response.sessionStillActive

\* C6, amended: called without a token, ensureSession returns the stored token
\* without logging in exactly when its handshake did not report "authentication
\* required and session not active"; when it did, it goes on to performLogin or
\* exits with status 1. Called with a token, it asks for no handshake, reads no
\* store and returns that token after the API version check alone.
C6_HandshakeOnlyWithoutToken ==
    IsEnsureSession(op) =>
        IF op.session_token # NoToken
        THEN /\ ~auth_response.seen
             /\ Count("getAuthParameters", log) = 0
             /\ Count("performLogin", log) = 0
             /\ reads = <<>>
             /\ Returned => (ret = AuthClient(op.session_token) /\ log = <<"checkAPIVersion">>)
        ELSE /\ Returned =>
                /\ auth_response.seen
                /\ (Count("performLogin", log) = 0) <=> ~NeedsLogin(auth_response)
                /\ ~NeedsLogin(auth_response) => ret = AuthClient(reads[1])
             /\ (auth_response.seen /\ NeedsLogin(auth_response)) =>
                \/ pc = "pafh_login"
                \/ Count("performLogin", log) = 1
                \/ pc = "exited" /\ exitStatus = 1

\* C6 witness: a token of a session that is no longer active, given by the
\* caller to a server that requires authentication, was returned.
C6_Witness ==
    /\ Returned
    /\ op.kind = "setup_auth_client"
    /\ op.session_token = FirstToken
    /\ FirstToken \notin sessions
    /\ requiresAuthentication
    /\ ret = AuthClient(FirstToken)

\* C7, as claimed: setup_client with product_client=True returns a product
\* client whose endpoint path holds the product name, after getPackageVersion
\* and getCurrentProduct on that endpoint.
C7_Original ==
    (Returned /\ op.kind = "setup_client" /\ op.product_client) =>
        /\ ret.kind = "product"
        /\ IsSubstring(op.product_name, ret.path)
        /\ Count("getPackageVersion", log) = 1
        /\ Count("getCurrentProduct", log) = 1

\* C7, amended: setup_client with product_client=True returns the server-wide
\* product client it validated the product with: its endpoint path is
\* '/v' + CLIENT_API + '/Products', without the product name, it is bound to
\* the token of the second setup_auth_client, the one getProducts answer passed
\* the validation, and neither getPackageVersion nor getCurrentProduct was
\* called. The probe belongs to setup_product_client called with a product
\* name, which returns the scoped client only after both calls.
C7_ServerWideProductClient ==
    /\ (Returned /\ op.kind = "setup_client" /\ op.product_client) =>
        /\ ret.kind = "product"
        /\ ret.path = <<"/v", "CLIENT_API", "/Products">>
        /\ ~IsSubstring(op.product_name, ret.path)
        /\ Count("getPackageVersion", log) = 0
        /\ Count("getCurrentProduct", log) = 0
        /\ Count("getProducts", log) = 1
        /\ ProductErrorStr(product, op.product_name) = ""
    /\ (Returned /\ op.kind = "setup_product_client" /\ op.product_name # NoProduct) =>
        /\ ret.kind = "product"
        /\ IsSubstring(op.product_name, ret.path)
        /\ Count("getPackageVersion", log) = 1
        /\ Count("getCurrentProduct", log) = 1

\* C7 witness: setup_client returned a product client.
C7_Witness ==
    /\ Returned
    /\ op.kind = "setup_client"
    /\ op.product_client
    /\ op.product_name = <<"Foo">>
    /\ ret.kind = "product"

\* The one product of the answer is the requested one.
ProductFound ==
    Len(product) = 1 /\ product[1].endpoint = op.product_name

\* setup_client has had its answer from getProducts.
Validated == op.kind = "setup_client" /\ Count("getProducts", log) = 1

\* C8: product validation is by equality. Whenever the answer of getProducts is
\* not exactly one product, or its one product's endpoint is not the requested
\* name, setup_client has exited with status 1 and the "does not exist" cause
\* and returned no client, whatever accessible and databaseStatus are.
C8_ProductEqualityNotContainment ==
    (Validated /\ ~ProductFound) =>
        /\ pc = "exited"
        /\ exitStatus = 1
        /\ cause = "It does not exist."
        /\ ret = NoRet

\* C8 witness: "Foo" was asked for and the server listed the accessible,
\* healthy product "FooBar".
C8_Witness ==
    /\ Validated
    /\ op.product_name = <<"Foo">>
    /\ product = <<[endpoint |-> <<"Foo", "Bar">>, accessible |-> TRUE,
                    databaseStatus |-> "OK"]>>
    /\ exitStatus = 1

\* C9: the validation reports the first failure in the order not found,
\* no access, database. A found product with accessible=false gives "no
\* access", also when its database is not OK; "database" is reported exactly
\* for a found, accessible product whose status is not OK; "does not exist"
\* exactly for a product not found; every failure is exit status 1 without a
\* client; and a client is returned exactly when all three checks pass.
C9_ValidationOrder ==
    Validated =>
        /\ (ProductFound /\ ~product[1].accessible) =>
                cause = "You do not have access."
        /\ (cause = "The database has issues, or the connection is badly configured.")
                <=> (/\ ProductFound
                     /\ product[1].accessible
                     /\ product[1].databaseStatus # "OK")
        /\ (cause = "It does not exist.") <=> ~ProductFound
        /\ (cause # "") => (pc = "exited" /\ exitStatus = 1 /\ ret = NoRet)
        /\ (Returned /\ ret.kind \in {"product", "service"})
                <=> (/\ ProductFound
                     /\ product[1].accessible
                     /\ product[1].databaseStatus = "OK")

\* C9 witness: the requested product exists, is not accessible and its
\* database is not OK.
C9_Witness ==
    /\ Validated
    /\ ProductFound
    /\ ~product[1].accessible
    /\ product[1].databaseStatus # "OK"
    /\ cause = "You do not have access."
    /\ exitStatus = 1

\* C10, as claimed: check_permission never raises to its caller: for every
\* permission and every extra_params it returns a boolean, and it returns
\* False whenever hasPermission fails.
C10_NeverRaises ==
    (Returned /\ op.kind = "check_permission") =>
        /\ ret.kind = "bool"
        /\ (cause = "Failed to query the permission.") => ~ret.value

\* C11: logout is idempotent. It never sends performLogin; once it has
\* returned, a destroySession that answered true has been followed by the one
\* save_token that clears the token, and a destroySession that answered false
\* by no store write at all, without error; and the second of two logouts in a
\* row leaves the store as the first left it.
C11_LogoutIdempotent ==
    op.kind = "logout" =>
        /\ Count("performLogin", log) = 0
        /\ sent = <<>> /\ logins = <<>>
        /\ pc \notin {"ha_handshake", "ha_methods", "ha_login", "ha_save"}
        /\ Returned =>
            /\ Count("destroySession", log) = 1
            /\ exitStatus = 0 /\ ret = Void
            /\ logout_done => (saves = <<NoToken>> /\ token = NoToken)
            /\ ~logout_done => (saves = <<>> /\ token = reads[1])
        /\ (Ended /\ prev.op.kind = "logout") => token = prev.token

\* C11 witness: the first logout cleared the token of an active session, the
\* second found nothing to destroy and returned with the store still cleared.
C11_Witness ==
    /\ Returned
    /\ op.kind = "logout"
    /\ prev.op.kind = "logout"
    /\ prev.ret = Void
    /\ prev.token = NoToken
    /\ Count("destroySession", log) = 1
    /\ ~logout_done
    /\ reads = <<NoToken>>
    /\ token = NoToken

\* The RPCs of the authentication endpoint other than checkAPIVersion.
AuthRPCs == {"getAuthParameters", "getAcceptedAuthMethods", "performLogin",
             "destroySession"}

\* ensureSession, login and logout.
IsAuthOperation(o) == IsEnsureSession(o) \/ o.kind \in {"login", "logout"}

\* C12: in ensureSession, login and logout, every getAuthParameters,
\* getAcceptedAuthMethods, performLogin and destroySession of the log comes
\* after a checkAPIVersion that the server accepted, the first RPC of the
\* operation is checkAPIVersion, and once the server has rejected the version
\* the process has exited with status 1 on the incompatible API path, having
\* sent no performLogin and written nothing to the credential store.
C12_VersionCheckFirst ==
    IsAuthOperation(op) =>
        /\ \A i \in DOMAIN log :
            log[i] \in AuthRPCs =>
                /\ apiAccepted
                /\ \E j \in 1..(i - 1) : log[j] = "checkAPIVersion"
        /\ \A i \in DOMAIN log :
            (log[i] # "get_token" /\ \A j \in 1..(i - 1) : log[j] = "get_token")
                => log[i] = "checkAPIVersion"
        /\ (~apiAccepted /\ Count("checkAPIVersion", log) > 0) =>
            /\ pc = "exited"
            /\ exitStatus = 1
            /\ cause = "Incompatible client/server API."
            /\ Count("checkAPIVersion", log) = 1
            /\ log[Len(log)] = "checkAPIVersion"
            /\ Count("performLogin", log) = 0
            /\ sent = <<>>
            /\ Count("save_token", log) = 0
            /\ saves = <<>>

\* C12 witness: the server rejected the version of a logout whose stored
\* token names an active session; the session and the token are still there.
C12_Witness ==
    /\ op.kind = "logout"
    /\ ~apiAccepted
    /\ pc = "exited"
    /\ log = <<"get_token", "checkAPIVersion">>
    /\ token = FirstToken
    /\ FirstToken \in sessions

\* The handshake call of the operation met a server that does not know it.
HandshakeUnsupported == auth_response.seen /\ ~auth_response.supported

\* C13: when getAuthParameters raised TApplicationException, ensureSession and
\* the explicit login go on as if no authentication were required: no
\* performLogin is sent, nothing is written to the credential store, the
\* process does not exit; login returns at once, ensureSession has only the
\* version check of its client left and returns the token it read.
C13_UnsupportedHandshakeIsNotRequired ==
    (HandshakeUnsupported /\ (IsEnsureSession(op) \/ op.kind = "login")) =>
        /\ ~auth_response.requiresAuthentication
        /\ Count("performLogin", log) = 0
        /\ Count("getAcceptedAuthMethods", log) = 0
        /\ Count("getpass", log) = 0
        /\ sent = <<>>
        /\ Count("save_token", log) = 0
        /\ saves = <<>>
        /\ token = reads[1]
        /\ pc # "exited" /\ exitStatus = 0
        /\ IF op.kind = "login"
           THEN /\ Returned
                /\ ret = Void
                /\ cause = "This server does not support privileged access."
           ELSE /\ pc \in {"sac_version", "idle"}
                /\ apiAccepted
                /\ Returned => ret = AuthClient(reads[1])

\* C13 witness: ensureSession, with autologin and a saved credential and a
\* stored token of no active session, returned from a server without the
\* handshake call.
C13_Witness ==
    /\ Returned
    /\ op.kind = "setup_auth_client"
    /\ HandshakeUnsupported
    /\ autologin /\ auth_string # NoAuthString
    /\ reads = <<FirstToken>>
    /\ FirstToken \notin sessions
    /\ ret = AuthClient(FirstToken)

\* The operation was given a product URL that split_product_url refuses.
MalformedUrl ==
    op.kind \in {"setup_client", "setup_auth_client_from_url"} /\ ~op.url_ok

\* The messages of the fatal paths other than the malformed URL.
OtherFatalCauses ==
    {"Incompatible client/server API.",
     "Access denied. This server requires authentication.",
     "Authentication failed! Please check your credentials.",
     "No authentication methods were reported by the server that this client could support.",
     "The product cannot be communicated with.",
     "It does not exist.",
     "You do not have access.",
     "The database has issues, or the connection is badly configured."}

\* C14: setup_client and setup_auth_client_from_url given a malformed product
\* URL have exited with status 2 with no RPC sent and the credential store
\* neither read nor written; every other exit is one of the version, access
\* denied, authentication failed, unsupported methods and product validation
\* paths and has status 1; no status but 1 and 2 occurs.
C14_ExitStatuses ==
    /\ MalformedUrl =>
        /\ pc = "exited"
        /\ exitStatus = 2
        /\ cause = "Malformed product URL was provided."
        /\ ret = NoRet
        /\ log = <<>>
        /\ reads = <<>>
        /\ saves = <<>>
    /\ (pc = "exited" /\ ~MalformedUrl) =>
        /\ exitStatus = 1
        /\ cause \in OtherFatalCauses
    /\ pc # "exited" => exitStatus = 0

\* C14 witness: setup_auth_client_from_url, given a token and a URL without a
\* port, exited with status 2 before anything else.
C14_Witness ==
    /\ op.kind = "setup_auth_client_from_url"
    /\ op.session_token = FirstToken
    /\ ~op.url_ok
    /\ pc = "exited"
    /\ exitStatus = 2
    /\ token = FirstToken

\* C15, as claimed: the explicit login prefers a saved credential. With a
\* credential string saved, of the form user:pass, the password holding ":"
\* or not, login never asks for a password and what it sends to performLogin
\* is exactly the saved string; it asks for the password, and sends the given
\* username with it, only when none is saved.
C15_SavedCredentialSentExactly ==
    op.kind = "login" =>
        /\ auth_string # NoAuthString =>
            /\ Count("getpass", log) = 0
            /\ \A i \in DOMAIN sent : sent[i] = auth_string
        /\ auth_string = NoAuthString =>
            /\ Count("getpass", log) = Count("get_auth_string", log)
            /\ \A i \in DOMAIN sent :
                \E typed \in Passwords : sent[i] = Credential(op.username, typed)

\* 'Username:Password' is one of the methods of the answer.
IsMember(m) == \E i \in DOMAIN m : m[i] = UsernamePassword

\* C16, as claimed: the explicit login sends performLogin only if
\* 'Username:Password' is a member of the accepted methods the server
\* reported; for every answer that does not hold it as a member, also one
\* whose names only contain it, login has exited with status 1 without
\* performLogin, without asking for a password and without a store write.
C16_MethodMembership ==
    (op.kind = "login" /\ Count("getAcceptedAuthMethods", log) = 1) =>
        /\ Count("performLogin", log) > 0 => IsMember(methods)
        /\ (Ended /\ ~IsMember(methods)) =>
            /\ pc = "exited"
            /\ exitStatus = 1
            /\ Count("performLogin", log) = 0
            /\ Count("getpass", log) = 0
            /\ saves = <<>>

\* C17: with a second process logging out or in on the same store and the
\* server expiring sessions, in every interleaving: once the handshake of
\* ensureSession without a token has said that authentication is required and
\* the session of the token it read is not active, ensureSession is on its
\* way to performLogin, or has exited with status 1, or has logged in; and
\* when it returns, it returns the token its own performLogin issued, which is
\* not the token it read, having written exactly that token to the store.
C17_NoStaleTokenReturned ==
    (/\ IsEnsureSession(op)
     /\ op.session_token = NoToken
     /\ auth_response.seen
     /\ auth_response.requiresAuthentication
     /\ ~auth_response.sessionStillActive) =>
        /\ pc \in {"pafh_login", "pafh_save", "sac_version", "idle", "exited"}
        /\ pc = "exited" => (exitStatus = 1 /\ ret = NoRet /\ saves = <<>>)
        /\ pc \in {"pafh_save", "sac_version", "idle"} =>
            /\ Len(logins) = 1
            /\ logins[1] # reads[1]
            /\ sent = <<auth_string>>
        /\ pc \in {"sac_version", "idle"} => saves = <<logins[1]>>
        /\ Returned =>
            /\ ret = AuthClient(logins[1])
            /\ ret.token # reads[1]

\* C17 witness: ensureSession read a token, the other process's logout ended
\* that session, ensureSession logged in anew and saved its token, the
\* logout then cleared the store, and ensureSession returned its new token.
C17_Witness ==
    /\ Returned
    /\ op.kind = "setup_auth_client"
    /\ reads = <<FirstToken>>
    /\ auth_response.requiresAuthentication
    /\ ~auth_response.sessionStillActive
    /\ ret = AuthClient(logins[1])
    /\ saves = <<logins[1]>>
    /\ ~other_login
    /\ other_token = FirstToken
    /\ other_pc = "idle"
    /\ token = NoToken

\* setup_client: where the second setup_auth_client, the one inside
\* setup_product_client, read the store.
SecondRead == CHOOSE i \in DOMAIN log : i > 1 /\ log[i] = "get_token"

\* setup_client: the token the directory client was bound to, which is the
\* token of the second setup_auth_client: the one its performLogin returned,
\* or else the one it read.
DirectoryToken ==
    IF \E i \in DOMAIN log : i > SecondRead /\ log[i] = "performLogin"
    THEN logins[Len(logins)]
    ELSE reads[2]

\* C18, as claimed: when setup_client has returned an analysis-service
\* client, the token that client is bound to is the token of the directory
\* client that validated the product and the token the credential store
\* holds, also when the session expired between the two session
\* establishments; and the call sent performLogin at most once.
C18_OneTokenPerGetClient ==
    /\ (op.kind = "setup_client" /\ pc = "sc_products") =>
        session_token = DirectoryToken
    /\ (Returned /\ op.kind = "setup_client" /\ ret.kind = "service") =>
        /\ ret.token = DirectoryToken
        /\ ret.token = token
        /\ Count("performLogin", log) <= 1

\* The step writes the store's token t and records it as this operation's
\* save_token.
Writes(t) ==
    /\ token' = t
    /\ saves' = Append(saves, t)
    /\ log' = Append(log, "save_token")

\* The last event of the log is a performLogin that returned a token.
LoginJustReturned ==
    /\ log # <<>> /\ log[Len(log)] = "performLogin"
    /\ Len(logins) = Count("performLogin", log)

\* The last event of the log is a destroySession that answered true.
LogoutJustDone ==
    /\ log # <<>> /\ log[Len(log)] = "destroySession"
    /\ logout_done

\* C19: every write of the store's token follows a successful server call of
\* the same operation. A step that changes the token, or records a save, is
\* the save of the token the performLogin just before returned, or the clear
\* after the destroySession just before answered true; the saved credential
\* string and the autologin flag are never written. Hence ensureSession,
\* login and logout that ended in a fatal exit have written nothing: the store
\* holds the token they read.
C19_WritesFollowServerSuccess ==
    /\ [][/\ (token' # token \/ (saves' # saves /\ saves' # <<>>)) =>
               \/ LoginJustReturned /\ Writes(logins[Len(logins)])
               \/ LogoutJustDone /\ Writes(NoToken)
           /\ auth_string' = auth_string
           /\ autologin' = autologin]_vars
    /\ []((pc = "exited" /\ IsAuthOperation(op)) =>
            /\ saves = <<>>
            /\ Count("save_token", log) = 0
            /\ reads # <<>> => token = reads[1])

\* C19 witness: the explicit login replaced the stored token by the one its
\* performLogin returned, as the last two events of its log.
C19_Witness ==
    /\ Returned
    /\ op.kind = "login"
    /\ reads = <<FirstToken>>
    /\ Len(logins) = 1
    /\ saves = logins
    /\ token = logins[1]
    /\ token # FirstToken
    /\ log[Len(log) - 1] = "performLogin"
    /\ log[Len(log)] = "save_token"

\* The changeReviewStatus calls sent for report r, in order.
ChangesOf(r) == SelectSeq(changes, LAMBDA c : c.reportId = r)

====
